---- MODULE Spec2Model ----
(***************************************************************************)
(* Model of scripts/classify_documents.py: the ordered rule engine         *)
(* (classify_document), the index client (search_documents,                *)
(* update_documents_batch) and the paginated batch-update orchestrator     *)
(* (run_classification).                                                   *)
(***************************************************************************)
EXTENDS Integers, Sequences, FiniteSets, TLC

(***************************************************************************)
(* Text.  Python strings are TLA+ strings; position i means "i characters  *)
(* consumed", so the character at position i is SubSeq(text, i+1, i+1).    *)
(* NULL stands for Python's None / a JSON null field.                      *)
(***************************************************************************)
NULL == "<None>"

\* Python truthiness of an optional string: None and '' are falsy.
Truthy(s) == s # NULL /\ s # ""

CharAt(text, i) == SubSeq(text, i, i)

LowerMap ==
    ("A" :> "a") @@ ("B" :> "b") @@ ("C" :> "c") @@ ("D" :> "d") @@
    ("E" :> "e") @@ ("F" :> "f") @@ ("G" :> "g") @@ ("H" :> "h") @@
    ("I" :> "i") @@ ("J" :> "j") @@ ("K" :> "k") @@ ("L" :> "l") @@
    ("M" :> "m") @@ ("N" :> "n") @@ ("O" :> "o") @@ ("P" :> "p") @@
    ("Q" :> "q") @@ ("R" :> "r") @@ ("S" :> "s") @@ ("T" :> "t") @@
    ("U" :> "u") @@ ("V" :> "v") @@ ("W" :> "w") @@ ("X" :> "x") @@
    ("Y" :> "y") @@ ("Z" :> "z")

LowerChar(c) == IF c \in DOMAIN LowerMap THEN LowerMap[c] ELSE c

\* str.lower()
RECURSIVE lower(_)
lower(s) ==
    IF s = "" THEN ""
    ELSE LowerChar(CharAt(s, 1)) \o lower(SubSeq(s, 2, Len(s)))

DigitChars == {"0", "1", "2", "3", "4", "5", "6", "7", "8", "9"}
SpaceChars == {" "}

(***************************************************************************)
(* Regular expressions.  A pattern is a sequence of tokens; the tokens are *)
(* the constructs that occur in the rule table:                            *)
(*   Lit(s)       the literal s            DotStar      .*                 *)
(*   Bol          ^                        Eol          $                  *)
(*   Digits       \d+                      Spaces       \s+                *)
(*   Opt(c)       c?                       NotAhead(s)  (?!.*s)            *)
(* Every search in the program passes re.IGNORECASE, so literals compare   *)
(* case-insensitively.                                                     *)
(***************************************************************************)
Lit(s)      == [t |-> "lit", s |-> s]
Opt(c)      == [t |-> "opt", s |-> c]
NotAhead(s) == [t |-> "notahead", s |-> s]
DotStar     == [t |-> "dotstar", s |-> ""]
Digits      == [t |-> "digits", s |-> ""]
Spaces      == [t |-> "spaces", s |-> ""]
Bol         == [t |-> "bol", s |-> ""]
Eol         == [t |-> "eol", s |-> ""]

CharEqIgnoreCase(c, d) == c = d \/ LowerChar(c) = LowerChar(d)

\* the literal lit occurs in text right after position i
LitAt(text, i, lit) ==
    /\ i + Len(lit) <= Len(text)
    /\ \A n \in 1..Len(lit) :
          CharEqIgnoreCase(CharAt(text, i + n), CharAt(lit, n))

\* characters i+1..j of text all belong to class
AllIn(text, i, j, class) == \A n \in (i + 1)..j : CharAt(text, n) \in class

\* tokens k.. of pat match text from position i on
RECURSIVE MatchFrom(_, _, _, _)
MatchFrom(pat, k, text, i) ==
    IF k > Len(pat) THEN TRUE
    ELSE LET tk == pat[k] IN
      CASE tk.t = "lit" ->
             LitAt(text, i, tk.s) /\ MatchFrom(pat, k + 1, text, i + Len(tk.s))
        [] tk.t = "opt" ->
             \/ LitAt(text, i, tk.s) /\ MatchFrom(pat, k + 1, text, i + 1)
             \/ MatchFrom(pat, k + 1, text, i)
        [] tk.t = "dotstar" ->
             \E j \in i..Len(text) : MatchFrom(pat, k + 1, text, j)
        [] tk.t = "digits" ->
             \E j \in (i + 1)..Len(text) :
                AllIn(text, i, j, DigitChars) /\ MatchFrom(pat, k + 1, text, j)
        [] tk.t = "spaces" ->
             \E j \in (i + 1)..Len(text) :
                AllIn(text, i, j, SpaceChars) /\ MatchFrom(pat, k + 1, text, j)
        [] tk.t = "bol" -> i = 0 /\ MatchFrom(pat, k + 1, text, i)
        [] tk.t = "eol" -> i = Len(text) /\ MatchFrom(pat, k + 1, text, i)
        [] tk.t = "notahead" ->
             /\ ~ \E j \in i..Len(text) : LitAt(text, j, tk.s)
             /\ MatchFrom(pat, k + 1, text, i)

\* re.search(pattern, text, re.IGNORECASE) is not None
re_search(pat, text) == \E i \in 0..Len(text) : MatchFrom(pat, 1, text, i)

(***************************************************************************)
(* The rule table, in declaration order.                                   *)
(***************************************************************************)
CLASSIFICATION_RULES == <<
    [category |-> "owner_statement", access_level |-> "owner_only",
     path |-> << <<Lit("/Statement/")>>,
                 <<Lit("/Statements/")>>,
                 <<Lit("/Billing/")>> >>,
     name |-> << <<Bol, Digits, DotStar, Lit("statement")>>,
                 <<Lit("statement"), DotStar, Lit(".pdf"), Eol>>,
                 <<Bol, Lit("R"), Digits, Lit("L"), Digits>> >> ],
    [category |-> "owner_ledger", access_level |-> "owner_only",
     path |-> << <<Lit("/Ledger/")>>,
                 <<Lit("/Account History/")>> >>,
     name |-> << <<Lit("ledger")>>,
                 <<Lit("account"), DotStar, Lit("history")>> >> ],
    [category |-> "owner_letter", access_level |-> "owner_only",
     path |-> << <<Lit("/Owner Letters/")>>,
                 <<Lit("/Homeowner Letters/")>> >>,
     name |-> << <<Lit("letter"), DotStar, Lit("to"), DotStar>>,
                 <<Lit("demand"), DotStar, Lit("letter")>>,
                 <<Lit("collection"), DotStar, Lit("letter")>>,
                 <<Lit("notice"), DotStar, Lit("to"), DotStar, Lit("owner")>> >> ],
    [category |-> "owner_arc_submission", access_level |-> "arc_review",
     path |-> << <<Lit("/ARC"), DotStar, Lit("Submission/")>>,
                 <<Lit("/ARC"), DotStar, Lit("Application/")>>,
                 <<Lit("/Architectural"), DotStar, Lit("Request/")>> >>,
     name |-> << <<Lit("arc"), DotStar, Lit("application")>>,
                 <<Lit("arc"), DotStar, Lit("request")>>,
                 <<Lit("architectural"), DotStar, Lit("submission")>> >> ],
    [category |-> "governing_ccr", access_level |-> "community_public",
     path |-> << <<Lit("/Govern/")>>,
                 <<Lit("/Governing/")>>,
                 <<Lit("/CCR/")>> >>,
     name |-> << <<Lit("ccr")>>,
                 <<Lit("cc&r")>>,
                 <<Lit("covenant"), Opt("s")>>,
                 <<Lit("declaration")>>,
                 <<Lit("deed"), DotStar, Lit("restriction")>>,
                 <<Lit("restrictions")>> >> ],
    [category |-> "governing_bylaws", access_level |-> "community_public",
     path |-> << <<Lit("/Govern/")>>,
                 <<Lit("/Governing/")>>,
                 <<Lit("/Bylaws/")>> >>,
     name |-> << <<Lit("bylaw")>>,
                 <<Lit("by-law")>>,
                 <<Lit("by"), Spaces, Lit("law")>> >> ],
    [category |-> "governing_rules", access_level |-> "community_public",
     path |-> << <<Lit("/Govern/")>>,
                 <<Lit("/Governing/")>>,
                 <<Lit("/Rules/")>> >>,
     name |-> << <<Lit("rule"), Opt("s"), DotStar, Lit("regulation")>>,
                 <<Lit("regulation")>>,
                 <<Lit("policies")>>,
                 <<Lit("policy"), NotAhead("insurance")>>,
                 <<Lit("guideline"), Opt("s"), NotAhead("arc")>> >> ],
    [category |-> "governing_arc_guidelines", access_level |-> "community_public",
     path |-> << <<Lit("/ARC/")>>,
                 <<Lit("/Architectural/")>>,
                 <<Lit("/Design/")>> >>,
     name |-> << <<Lit("arc"), DotStar, Lit("guide")>>,
                 <<Lit("architectural"), DotStar, Lit("guide")>>,
                 <<Lit("architectural"), DotStar, Lit("standard")>>,
                 <<Lit("design"), DotStar, Lit("guide")>>,
                 <<Lit("design"), DotStar, Lit("standard")>> >> ],
    [category |-> "community_minutes", access_level |-> "community_public",
     path |-> << <<Lit("/Minutes/")>>,
                 <<Lit("/Meeting Minutes/")>>,
                 <<Lit("/Board Meeting/")>> >>,
     name |-> << <<Lit("minutes")>>,
                 <<Lit("meeting"), DotStar, Lit("notes")>>,
                 <<Lit("board"), DotStar, Lit("meeting")>> >> ],
    [category |-> "community_newsletter", access_level |-> "community_public",
     path |-> << <<Lit("/Newsletter/")>>,
                 <<Lit("/Communications/")>> >>,
     name |-> << <<Lit("newsletter")>>,
                 <<Lit("bulletin")>>,
                 <<Lit("community"), DotStar, Lit("update")>> >> ],
    [category |-> "community_announcement", access_level |-> "community_public",
     path |-> << <<Lit("/Notices/")>>,
                 <<Lit("/Announcements/")>> >>,
     name |-> << <<Lit("announcement")>>,
                 <<Lit("notice"), NotAhead("violation")>>,
                 <<Lit("alert")>>,
                 <<Lit("advisory")>> >> ],
    [category |-> "community_directory", access_level |-> "board_only",
     path |-> << <<Lit("/Directory/")>>,
                 <<Lit("/Contact/")>> >>,
     name |-> << <<Lit("directory")>>,
                 <<Lit("contact"), DotStar, Lit("list")>>,
                 <<Lit("phone"), DotStar, Lit("list")>>,
                 <<Lit("resident"), DotStar, Lit("list")>> >> ],
    [category |-> "board_financial", access_level |-> "board_only",
     path |-> << <<Lit("/Financial/")>>,
                 <<Lit("/Budget/")>>,
                 <<Lit("/Audit/")>>,
                 <<Lit("/Reserve/")>> >>,
     name |-> << <<Lit("budget")>>,
                 <<Lit("financial"), DotStar, Lit("statement")>>,
                 <<Lit("balance"), DotStar, Lit("sheet")>>,
                 <<Lit("income"), DotStar, Lit("statement")>>,
                 <<Lit("audit")>>,
                 <<Lit("reserve"), DotStar, Lit("study")>>,
                 <<Lit("reserve"), DotStar, Lit("analysis")>>,
                 <<Lit("bank"), DotStar, Lit("statement")>> >> ],
    [category |-> "board_delinquency", access_level |-> "board_only",
     path |-> << <<Lit("/Delinquency/")>>,
                 <<Lit("/Collections/")>>,
                 <<Lit("/Aging/")>> >>,
     name |-> << <<Lit("delinquen")>>,
                 <<Lit("aging"), DotStar, Lit("report")>>,
                 <<Lit("collection"), DotStar, Lit("report")>>,
                 <<Lit("past"), DotStar, Lit("due")>> >> ],
    [category |-> "board_insurance", access_level |-> "board_only",
     path |-> << <<Lit("/Insurance/")>> >>,
     name |-> << <<Lit("insurance"), DotStar, Lit("polic")>>,
                 <<Lit("certificate"), DotStar, Lit("insurance")>>,
                 <<Lit("coi")>>,
                 <<Lit("coverage")>>,
                 <<Lit("liability"), DotStar, Lit("policy")>> >> ],
    [category |-> "board_contracts", access_level |-> "board_only",
     path |-> << <<Lit("/Contract/")>>,
                 <<Lit("/Agreement/")>>,
                 <<Lit("/Service Agreement/")>> >>,
     name |-> << <<Lit("contract")>>,
                 <<Lit("agreement"), NotAhead("arc")>>,
                 <<Lit("service"), DotStar, Lit("contract")>>,
                 <<Lit("maintenance"), DotStar, Lit("agreement")>> >> ],
    [category |-> "board_legal", access_level |-> "board_only",
     path |-> << <<Lit("/Legal/")>>,
                 <<Lit("/Attorney/")>>,
                 <<Lit("/Litigation/")>> >>,
     name |-> << <<Lit("legal")>>,
                 <<Lit("attorney")>>,
                 <<Lit("lawsuit")>>,
                 <<Lit("litigation")>>,
                 <<Lit("lien"), NotAhead("release")>>,
                 <<Lit("judgment")>>,
                 <<Lit("court")>> >> ],
    [category |-> "staff_bids", access_level |-> "staff_only",
     path |-> << <<Lit("/Bid/")>>,
                 <<Lit("/Bids/")>>,
                 <<Lit("/Proposal/")>>,
                 <<Lit("/Proposals/")>>,
                 <<Lit("/Quote/")>> >>,
     name |-> << <<Lit("bid")>>,
                 <<Lit("proposal")>>,
                 <<Lit("estimate")>>,
                 <<Lit("quote")>>,
                 <<Lit("pricing")>> >> ],
    [category |-> "staff_violations", access_level |-> "staff_only",
     path |-> << <<Lit("/Violation/")>>,
                 <<Lit("/Compliance/")>> >>,
     name |-> << <<Lit("violation")>>,
                 <<Lit("compliance"), DotStar, Lit("notice")>>,
                 <<Lit("warning"), DotStar, Lit("letter")>>,
                 <<Lit("fine"), DotStar, Lit("notice")>> >> ],
    [category |-> "staff_work_orders", access_level |-> "staff_only",
     path |-> << <<Lit("/Work"), DotStar, Lit("Order/")>>,
                 <<Lit("/Maintenance"), DotStar, Lit("Request/")>>,
                 <<Lit("/Service"), DotStar, Lit("Request/")>> >>,
     name |-> << <<Lit("work"), DotStar, Lit("order")>>,
                 <<Lit("service"), DotStar, Lit("request")>>,
                 <<Lit("maintenance"), DotStar, Lit("request")>>,
                 <<Lit("repair"), DotStar, Lit("request")>> >> ],
    [category |-> "staff_correspondence", access_level |-> "staff_only",
     path |-> << <<Lit("/Internal/")>>,
                 <<Lit("/Staff"), DotStar, Lit("Notes/")>>,
                 <<Lit("/Correspondence/")>> >>,
     name |-> << <<Lit("internal"), DotStar, Lit("memo")>>,
                 <<Lit("staff"), DotStar, Lit("note")>>,
                 <<Lit("correspondence"), NotAhead("owner")>> >> ],
    [category |-> "staff_vendor", access_level |-> "staff_only",
     path |-> << <<Lit("/Vendor/")>>,
                 <<Lit("/W9/")>>,
                 <<Lit("/W-9/")>> >>,
     name |-> << <<Lit("w"), Opt("-"), Lit("9")>>,
                 <<Lit("vendor"), DotStar, Lit("info")>>,
                 <<Lit("vendor"), DotStar, Lit("contact")>>,
                 <<Lit("vendor"), DotStar, Lit("setup")>> >> ]
>>

\* some pattern of the list matches (the inner for/break loops)
AnyPatternMatches(pats, text) ==
    \E n \in 1..Len(pats) : re_search(pats[n], text)

\* variant: the name patterns of a rule are never tried
RuleMatches_PathStageOnly(rule, path_lower, name_lower) ==
    AnyPatternMatches(rule.path, path_lower)

\* the `matched` flag of one loop iteration: path patterns first, name
\* patterns only when no path pattern hit
RuleMatches(rule, path_lower, name_lower) ==
    IF AnyPatternMatches(rule.path, path_lower) THEN TRUE
    ELSE AnyPatternMatches(rule.name, name_lower)

\* variant: the fallback exposes unknown documents to the community
DEFAULT_CLASSIFICATION_Public == <<"uncategorized", "community_public">>

DEFAULT_CLASSIFICATION == <<"uncategorized", "staff_only">>

\* variant: the loop does not return at the first match, the last match wins
RECURSIVE ClassifyFrom_LastMatchWins(_, _, _)
ClassifyFrom_LastMatchWins(k, path_lower, name_lower) ==
    IF k > Len(CLASSIFICATION_RULES) THEN DEFAULT_CLASSIFICATION
    ELSE LET later == ClassifyFrom_LastMatchWins(k + 1, path_lower, name_lower)
         IN  IF later # DEFAULT_CLASSIFICATION THEN later
             ELSE IF RuleMatches(CLASSIFICATION_RULES[k], path_lower, name_lower)
                  THEN <<CLASSIFICATION_RULES[k].category,
                         CLASSIFICATION_RULES[k].access_level>>
                  ELSE DEFAULT_CLASSIFICATION

\* variant: the matching rule's pair is returned in the wrong order
RECURSIVE ClassifyFrom_SwappedPair(_, _, _)
ClassifyFrom_SwappedPair(k, path_lower, name_lower) ==
    IF k > Len(CLASSIFICATION_RULES) THEN DEFAULT_CLASSIFICATION
    ELSE IF RuleMatches(CLASSIFICATION_RULES[k], path_lower, name_lower)
         THEN <<CLASSIFICATION_RULES[k].access_level,
                CLASSIFICATION_RULES[k].category>>
         ELSE ClassifyFrom_SwappedPair(k + 1, path_lower, name_lower)

\* the for loop over CLASSIFICATION_RULES from rule k on
RECURSIVE ClassifyFrom(_, _, _)
ClassifyFrom(k, path_lower, name_lower) ==
    IF k > Len(CLASSIFICATION_RULES) THEN DEFAULT_CLASSIFICATION
    ELSE IF RuleMatches(CLASSIFICATION_RULES[k], path_lower, name_lower)
         THEN <<CLASSIFICATION_RULES[k].category,
                CLASSIFICATION_RULES[k].access_level>>
         ELSE ClassifyFrom(k + 1, path_lower, name_lower)

\* "x.lower() if x else ''"
LowerOrEmpty(x) == IF Truthy(x) THEN lower(x) ELSE ""

classify_document(path, name) ==
    ClassifyFrom(1, LowerOrEmpty(path), LowerOrEmpty(name))

(***************************************************************************)
(* Metadata extractors.                                                    *)
(***************************************************************************)
\* Each community pattern is  <prefix alternatives> ([^/]+) /  : the set
\* holds the literal text that precedes the capture group.
COMMUNITY_PATTERNS == <<
    {"/Round Rock Office/", "/North Austin Office/", "/South Austin Office/"},
    {"/sites/AssociationDocs/"}
>>

\* Each owner-account pattern is  <literal> <separators>* (<digits>+) ,
\* except the first, which is  ^(R\d+L\d+) .
OWNER_ACCOUNT_PATTERNS == <<
    [kind |-> "rl", lit |-> "R"],
    [kind |-> "number", lit |-> "Account"],
    [kind |-> "number", lit |-> "Acct"]
>>

AccountSeparators == {":", " ", "#"}

\* end of the longest run of characters of class that starts after position i
RECURSIVE RunEnd(_, _, _)
RunEnd(text, i, class) ==
    IF i < Len(text) /\ CharAt(text, i + 1) \in class
    THEN RunEnd(text, i + 1, class)
    ELSE i

\* end of the longest run of characters other than c after position i
RECURSIVE RunEndNot(_, _, _)
RunEndNot(text, i, c) ==
    IF i < Len(text) /\ CharAt(text, i + 1) # c
    THEN RunEndNot(text, i + 1, c)
    ELSE i

\* str.replace('%20', ' ')
RECURSIVE ReplacePercent20(_)
ReplacePercent20(s) ==
    IF s = "" THEN ""
    ELSE IF Len(s) >= 3 /\ SubSeq(s, 1, 3) = "%20"
         THEN " " \o ReplacePercent20(SubSeq(s, 4, Len(s)))
         ELSE CharAt(s, 1) \o ReplacePercent20(SubSeq(s, 2, Len(s)))

\* re.sub(r'\s+', ' ', s)
RECURSIVE CollapseSpaces(_)
CollapseSpaces(s) ==
    IF s = "" THEN ""
    ELSE IF CharAt(s, 1) \in SpaceChars
         THEN " " \o CollapseSpaces(SubSeq(s, RunEnd(s, 0, SpaceChars) + 1, Len(s)))
         ELSE CharAt(s, 1) \o CollapseSpaces(SubSeq(s, 2, Len(s)))

\* str.strip()
RECURSIVE Strip(_)
Strip(s) ==
    IF s = "" THEN ""
    ELSE IF CharAt(s, 1) \in SpaceChars THEN Strip(SubSeq(s, 2, Len(s)))
    ELSE IF CharAt(s, Len(s)) \in SpaceChars THEN Strip(SubSeq(s, 1, Len(s) - 1))
    ELSE s

\* positions at which the community pattern matches: a prefix, at least one
\* non-slash character, then a slash
CommunityMatchAt(prefixes, path, i) ==
    \E p \in prefixes :
        /\ LitAt(path, i, p)
        /\ RunEndNot(path, i + Len(p), "/") > i + Len(p)
        /\ RunEndNot(path, i + Len(p), "/") < Len(path)

\* match.group(1) of the leftmost match
CommunityGroup(prefixes, path) ==
    LET hits == {i \in 0..Len(path) : CommunityMatchAt(prefixes, path, i)}
        i    == CHOOSE h \in hits : \A g \in hits : h <= g
        p    == CHOOSE q \in prefixes : LitAt(path, i, q)
    IN  SubSeq(path, i + Len(p) + 1, RunEndNot(path, i + Len(p), "/"))

RECURSIVE CommunityFrom(_, _)
CommunityFrom(k, path) ==
    IF k > Len(COMMUNITY_PATTERNS) THEN NULL
    ELSE IF \E i \in 0..Len(path) : CommunityMatchAt(COMMUNITY_PATTERNS[k], path, i)
         THEN Strip(CollapseSpaces(ReplacePercent20(
                    CommunityGroup(COMMUNITY_PATTERNS[k], path))))
         ELSE CommunityFrom(k + 1, path)

extract_community_name(path) ==
    IF ~Truthy(path) THEN NULL ELSE CommunityFrom(1, path)

\* the owner-account pattern matches text at position i
AccountMatchAt(pat, text, i) ==
    IF pat.kind = "rl"
    THEN /\ i = 0
         /\ MatchFrom(<<Lit("R"), Digits, Lit("L"), Digits>>, 1, text, 0)
    ELSE /\ LitAt(text, i, pat.lit)
         /\ LET d == RunEnd(text, i + Len(pat.lit), AccountSeparators)
            IN  RunEnd(text, d, DigitChars) > d

\* match.group(1) of the leftmost match
AccountGroup(pat, text) ==
    LET hits == {i \in 0..Len(text) : AccountMatchAt(pat, text, i)}
        i    == CHOOSE h \in hits : \A g \in hits : h <= g
    IN  IF pat.kind = "rl"
        THEN LET ends == {j \in 1..Len(text) :
                            /\ MatchFrom(<<Bol, Lit("R"), Digits, Lit("L"), Digits, Eol>>,
                                         1, SubSeq(text, 1, j), 0)}
                 j == CHOOSE e \in ends : \A f \in ends : e >= f
             IN  SubSeq(text, 1, j)
        ELSE LET d == RunEnd(text, i + Len(pat.lit), AccountSeparators)
             IN  SubSeq(text, d + 1, RunEnd(text, d, DigitChars))

RECURSIVE AccountFrom(_, _)
AccountFrom(k, text) ==
    IF k > Len(OWNER_ACCOUNT_PATTERNS) THEN NULL
    ELSE IF \E i \in 0..Len(text) : AccountMatchAt(OWNER_ACCOUNT_PATTERNS[k], text, i)
         THEN AccountGroup(OWNER_ACCOUNT_PATTERNS[k], text)
         ELSE AccountFrom(k + 1, text)

\* raised by re.search when its string argument is None
TYPE_ERROR == "<TypeError>"

\* f"{name}": None formats as 'None'
FormatStr(s) == IF s = NULL THEN "None" ELSE s

extract_owner_account(name, path) ==
    LET text == IF Truthy(path) THEN FormatStr(name) \o " " \o FormatStr(path)
                ELSE name
    IN  IF text = NULL THEN TYPE_ERROR ELSE AccountFrom(1, text)

(***************************************************************************)
(* Bounds of the model.                                                    *)
(***************************************************************************)
MaxDocs           == 3   \* documents in the index when a run starts
MaxBatchSize      == 2   \* largest --batch-size
MaxExtraAcks      == 1   \* acknowledgements a response may list beyond the batch
MaxWriteFaults    == 1   \* batch writes of a run not acknowledged in full
MaxRuns           == 2   \* consecutive invocations of run_classification
MaxExternalWrites == 1   \* documents another writer adds or removes
MaxConcurrentDocs == 1   \* documents in the index when a run starts beside another writer
MaxBulkWrites     == 2   \* bulk requests another writer sends during a run
MaxBulkSize       == 3   \* documents one bulk request adds
MaxPathSamples    == 9   \* paths given to classify_document on its own
MaxNameSamples    == 9   \* names given to classify_document on its own

\* print(...) of the first ten records of a run
SAMPLE_LIMIT == 10

HTTP_OK == 200

\* the status codes a transport call may end with: success, or a failure
\* (any non-200 code, a timeout or a connection error behave alike)
StatusCodes == {HTTP_OK, 503}

(***************************************************************************)
(* The document index (the external store behind the index client).        *)
(***************************************************************************)
\* documents the index may hold when a run starts
DocSeeds == <<
    [metadata_spo_item_name |-> "R0460131L0199873_statement.pdf",
     metadata_spo_item_path |-> "/sites/AssociationDocs/Oak%20Hill/Statements/",
     document_category |-> NULL, access_level |-> NULL,
     community_name |-> NULL, owner_account_id |-> NULL, classified_at |-> 0],
    [metadata_spo_item_name |-> "random_file.pdf",
     metadata_spo_item_path |-> "",
     document_category |-> "", access_level |-> NULL,
     community_name |-> "Old Town", owner_account_id |-> NULL, classified_at |-> 0],
    [metadata_spo_item_name |-> "Account 4471 budget.pdf",
     metadata_spo_item_path |-> NULL,
     document_category |-> "owner_ledger", access_level |-> "owner_only",
     community_name |-> "Old Town", owner_account_id |-> "4471", classified_at |-> 0],
    [metadata_spo_item_name |-> NULL,
     metadata_spo_item_path |-> "/Minutes/2024/",
     document_category |-> NULL, access_level |-> NULL,
     community_name |-> NULL, owner_account_id |-> NULL, classified_at |-> 0]
>>

\* the filter "document_category eq null or document_category eq ''"
Unclassified(doc) == doc.document_category = NULL \/ doc.document_category = ""

\* a set of document ids in the index's (stable) result order
RECURSIVE InOrder(_)
InOrder(ids) ==
    IF ids = {} THEN <<>>
    ELSE LET first == CHOOSE i \in ids : \A j \in ids : i <= j
         IN  <<first>> \o InOrder(ids \ {first})

\* variant: the unclassified-only filter is not sent
MatchingIds_Unfiltered(idx, unclassified_only) == InOrder(DOMAIN idx)

MatchingIds(idx, unclassified_only) ==
    InOrder({i \in DOMAIN idx : ~unclassified_only \/ Unclassified(idx[i])})

\* the "select" projection of one record
Selected(idx, i) ==
    [id |-> i,
     metadata_spo_item_name |-> idx[i].metadata_spo_item_name,
     metadata_spo_item_path |-> idx[i].metadata_spo_item_path,
     document_category |-> idx[i].document_category,
     community_name |-> idx[i].community_name]

Min(a, b) == IF a <= b THEN a ELSE b

\* variant: the page is not cut at "top" records
search_documents_IgnoringTop(idx, skip_, top, unclassified_only, status_code) ==
    IF status_code # HTTP_OK THEN <<>>
    ELSE LET ids  == MatchingIds(idx, unclassified_only)
             page == SubSeq(ids, skip_ + 1, Len(ids))
         IN  << [n \in 1..Len(page) |-> Selected(idx, page[n])], Len(ids) >>

\* search_documents: the value returned to the caller.  A non-200 response
\* returns the empty list; a 200 response returns the pair (value, count).
search_documents(idx, skip_, top, unclassified_only, status_code) ==
    IF status_code # HTTP_OK THEN <<>>
    ELSE LET ids  == MatchingIds(idx, unclassified_only)
             page == SubSeq(ids, skip_ + 1, Min(skip_ + top, Len(ids)))
         IN  << [n \in 1..Len(page) |-> Selected(idx, page[n])], Len(ids) >>

\* "a, b = value" succeeds only on a value of exactly two items
UnpacksToPair(value) == Len(value) = 2

\* the responses the index may give to a batch of n merge actions: a failed
\* transport, or one status per listed result item
BatchResponses(n) ==
    {[status_code |-> c, value |-> <<>>] : c \in StatusCodes \ {HTTP_OK}} \cup
    {[status_code |-> HTTP_OK, value |-> v] :
        v \in UNION {[1..m -> BOOLEAN] : m \in 0..(n + MaxExtraAcks)}}

\* variant: a batch the transport refused is not counted as failed
update_documents_batch_ForgetsRefusedBatch(updates, response) ==
    IF response.status_code = HTTP_OK
    THEN LET succeeded == Cardinality({n \in 1..Len(response.value) : response.value[n]})
             failed    == Len(updates) - succeeded
         IN  <<succeeded, failed>>
    ELSE <<0, 0>>

\* variant: failed counts the false statuses of the response
update_documents_batch_CountsFalseStatuses(updates, response) ==
    IF response.status_code = HTTP_OK
    THEN <<Cardinality({n \in 1..Len(response.value) : response.value[n]}),
           Cardinality({n \in 1..Len(response.value) : ~response.value[n]})>>
    ELSE <<0, Len(updates)>>

\* update_documents_batch: the (succeeded, failed) pair returned
update_documents_batch(updates, response) ==
    IF response.status_code = HTTP_OK
    THEN LET succeeded == Cardinality({n \in 1..Len(response.value) : response.value[n]})
             failed    == Len(updates) - succeeded
         IN  <<succeeded, failed>>
    ELSE <<0, Len(updates)>>

\* variant: the action replaces the stored document ("upload"), fields the
\* update does not carry become null
MergeDoc_Upload(doc, update) ==
    [f \in DOMAIN doc |-> IF f \in DOMAIN update THEN update[f] ELSE NULL]

\* "@search.action": "merge" of one update into its stored document
MergeDoc(doc, update) ==
    [f \in DOMAIN doc |-> IF f \in DOMAIN update THEN update[f] ELSE doc[f]]

\* the index after the merge actions of a batch: the n-th action is applied
\* when the response acknowledges it with a true status
RECURSIVE IndexAfterBatch(_, _, _, _)
IndexAfterBatch(idx, updates, response, n) ==
    IF n > Len(updates) THEN idx
    ELSE LET applied == /\ response.status_code = HTTP_OK
                        /\ n <= Len(response.value)
                        /\ response.value[n]
                        /\ updates[n].id \in DOMAIN idx
             next == IF applied
                     THEN [idx EXCEPT ![updates[n].id] = MergeDoc(@, updates[n])]
                     ELSE idx
         IN  IndexAfterBatch(next, updates, response, n + 1)

(***************************************************************************)
(* State.                                                                  *)
(***************************************************************************)
VARIABLES
    index,            \* the document index: id -> stored record
    nextId,           \* key the next document added to the index gets
    reclassify_all,   \* --all
    dry_run,          \* --dry-run
    batch_size,       \* --batch-size
    pc,               \* position of run_classification
    raisedAt,         \* statement whose exception ended the run, or ""
    total_count,      \* the count read before the loop
    skip,
    batch_updates,    \* the accumulator
    stats,
    pages,            \* page searches issued by the run, in order
    writes,           \* update_documents_batch calls of the run, in order
    index0,           \* the index when the run started
    externalWrites,   \* changes made by another writer during the run
    runNo,            \* invocations started so far
    prev,             \* parameters and outcome of the previous invocation
    clsInput,         \* (path, name) handed to classify_document on its own
    clsResult,        \* its result, <<>> before the call
    extResult,        \* result of the two extractors on (path, name), <<>> before
    statsShown,       \* what show_stats got and printed, <<>> before the call
    pureResults       \* results of the pure functions on the seed texts

runVars == <<reclassify_all, dry_run, batch_size, pc, raisedAt, total_count,
             skip, batch_updates, stats, pages, writes, index0,
             externalWrites, runNo, prev>>
clsVars == <<clsInput, clsResult, extResult, statsShown>>
vars == <<index, nextId, runVars, clsVars, pureResults>>

(***************************************************************************)
(* The body of the "for doc in docs" loop of run_classification.           *)
(***************************************************************************)
\* str.startswith
StartsWith(s, prefix) ==
    Len(s) >= Len(prefix) /\ SubSeq(s, 1, Len(prefix)) = prefix

EmptyDict == [k \in {} |-> 0]

\* variant: the counter is set to 1 instead of being incremented
Increment_Overwrite(d, key) == (key :> 1) @@ d

\* d[key] = d.get(key, 0) + 1
Increment(d, key) ==
    IF key \in DOMAIN d THEN [d EXCEPT ![key] = @ + 1] ELSE (key :> 1) @@ d

InitialStats ==
    [processed |-> 0, updated |-> 0, failed |-> 0,
     by_category |-> EmptyDict, by_access_level |-> EmptyDict]

(***************************************************************************)
(* The results of the three pure functions on the (path, name) of every    *)
(* seed document.  They are computed once, when the state is set up, and   *)
(* kept in pureResults; any other text is computed directly.               *)
(***************************************************************************)
SeedTexts ==
    {<<DocSeeds[s].metadata_spo_item_path, DocSeeds[s].metadata_spo_item_name>> :
        s \in 1..Len(DocSeeds)}

PureResults ==
    [t \in SeedTexts |->
        [classification |-> classify_document(t[1], t[2]),
         community |-> extract_community_name(t[1]),
         account |-> extract_owner_account(t[2], t[1])]]

Classification(path, name) ==
    IF <<path, name>> \in DOMAIN pureResults
    THEN pureResults[<<path, name>>].classification
    ELSE classify_document(path, name)

Community(path, name) ==
    IF <<path, name>> \in DOMAIN pureResults
    THEN pureResults[<<path, name>>].community
    ELSE extract_community_name(path)

OwnerAccount(name, path) ==
    IF <<path, name>> \in DOMAIN pureResults
    THEN pureResults[<<path, name>>].account
    ELSE extract_owner_account(name, path)

\* variant: the optional field is set whatever its value
WithOptional_Always(update, key, value) == (key :> value) @@ update

\* "if value: update[key] = value"
WithOptional(update, key, value) ==
    IF Truthy(value) THEN (key :> value) @@ update ELSE update

\* variant: the owner account is looked for under every category
OwnerAccountFor_Ungated(category, name, path) == OwnerAccount(name, path)

\* the owner account of a document: looked for only under an owner_ category
OwnerAccountFor(category, name, path) ==
    IF StartsWith(category, "owner_") THEN OwnerAccount(name, path) ELSE NULL

\* variant: owner_account_id is written whatever owner_account holds
BuildUpdate_ExplicitOwnerAccount(doc, now) ==
    LET name      == doc.metadata_spo_item_name
        path      == doc.metadata_spo_item_path
        cls       == Classification(path, name)
        extracted == Community(path, name)
        community == IF Truthy(extracted) THEN extracted ELSE doc.community_name
        owner_account == OwnerAccountFor(cls[1], name, path)
        base == [id |-> doc.id, document_category |-> cls[1],
                 access_level |-> cls[2], classified_at |-> now]
    IN  ("owner_account_id" :> owner_account) @@
        WithOptional(base, "community_name", community)

\* the update dictionary built for one record
BuildUpdate(doc, now) ==
    LET name      == doc.metadata_spo_item_name
        path      == doc.metadata_spo_item_path
        cls       == Classification(path, name)
        extracted == Community(path, name)
        community == IF Truthy(extracted) THEN extracted ELSE doc.community_name
        owner_account == OwnerAccountFor(cls[1], name, path)
        base == [id |-> doc.id, document_category |-> cls[1],
                 access_level |-> cls[2], classified_at |-> now]
    IN  WithOptional(WithOptional(base, "community_name", community),
                     "owner_account_id", owner_account)

\* one iteration of the loop on the run's working state
\* w = [batch_updates, stats, raised]; raised names the statement that threw
ProcessDoc(w, doc, now) ==
    LET name   == doc.metadata_spo_item_name
        path   == doc.metadata_spo_item_path
        cls    == Classification(path, name)
        update == BuildUpdate(doc, now)
        counted == [w.stats EXCEPT
                      !.by_category = Increment(@, cls[1]),
                      !.by_access_level = Increment(@, cls[2])]
    IN  IF OwnerAccountFor(cls[1], name, path) = TYPE_ERROR
        THEN [w EXCEPT !.raised = "extract_owner_account"]
        ELSE IF w.stats.processed < SAMPLE_LIMIT /\ name = NULL
        THEN \* name[:50] on None
             [batch_updates |-> Append(w.batch_updates, update),
              stats |-> counted, raised |-> "sample_print"]
        ELSE [batch_updates |-> Append(w.batch_updates, update),
              stats |-> [counted EXCEPT !.processed = @ + 1],
              raised |-> ""]

\* the whole loop over one page, stopping at the first exception
RECURSIVE ProcessDocs(_, _, _, _)
ProcessDocs(w, docs, n, now) ==
    IF n > Len(docs) \/ w.raised # "" THEN w
    ELSE CHOOSE result \in {ProcessDocs(next, docs, n + 1, now) :
                                next \in {ProcessDoc(w, docs[n], now)}} : TRUE

\* variant: the in-loop batch update forgets the dry-run flag
ShouldFlush_IgnoringDryRun(dry, updates, size) == Len(updates) >= size

\* "if not dry_run and len(batch_updates) >= batch_size"
ShouldFlush(dry, updates, size) == ~dry /\ Len(updates) >= size

\* variant: updates of a batch that reported failures stay in the accumulator
AccumulatorAfterBatch_KeepsFailed(updates, result) ==
    IF result[2] > 0 THEN updates ELSE <<>>

\* "batch_updates = []" after the in-loop batch update
AccumulatorAfterBatch(updates, result) == <<>>

\* variant: there is no flush after the loop
ShouldFlushFinal_Never(dry, updates) == FALSE

\* "if not dry_run and batch_updates"
ShouldFlushFinal(dry, updates) == ~dry /\ Len(updates) > 0

NoRun ==
    [reclassify_all |-> FALSE, dry_run |-> FALSE, batch_size |-> 0,
     pc |-> "none", stats |-> InitialStats, index0 |-> <<>>,
     externalWrites |-> 0]

\* the indexes a run may start on: up to MaxDocs of the seed documents
InitialIndexes ==
    UNION {[1..n -> {DocSeeds[s] : s \in 1..Len(DocSeeds)}] : n \in 0..MaxDocs}

Running == pc \in {"counting", "paginating", "batch_update", "final_batch"}
Ended   == pc \in {"done", "nothing", "raised"}

Init ==
    /\ pureResults = PureResults
    /\ index \in InitialIndexes
    /\ nextId = MaxDocs + 1
    /\ reclassify_all = FALSE
    /\ dry_run = FALSE
    /\ batch_size = 1
    /\ pc = "idle"
    /\ raisedAt = ""
    /\ total_count = 0
    /\ skip = 0
    /\ batch_updates = <<>>
    /\ stats = InitialStats
    /\ pages = <<>>
    /\ writes = <<>>
    /\ index0 = index
    /\ externalWrites = 0
    /\ runNo = 0
    /\ prev = NoRun
    /\ clsInput = <<NULL, NULL>>
    /\ clsResult = <<>>
    /\ extResult = <<>>
    /\ statsShown = <<>>

(***************************************************************************)
(* run_classification, one action per stretch between two index calls.     *)
(***************************************************************************)
\* variant: the run goes on to the loop whatever the count
NothingToDo_Never(total) == FALSE

\* "if total_count == 0"
NothingToDo(total) == total = 0

\* the command line is parsed and run_classification is entered
StartRun(all, dry, size) ==
    /\ pc = "idle" \/ Ended
    /\ runNo < MaxRuns
    /\ prev' = IF pc = "idle" THEN NoRun
               ELSE [reclassify_all |-> reclassify_all, dry_run |-> dry_run,
                     batch_size |-> batch_size, pc |-> pc, stats |-> stats,
                     index0 |-> index0, externalWrites |-> externalWrites]
    /\ runNo' = runNo + 1
    /\ reclassify_all' = all
    /\ dry_run' = dry
    /\ batch_size' = size
    /\ pc' = "counting"
    /\ raisedAt' = ""
    /\ total_count' = 0
    /\ skip' = 0
    /\ batch_updates' = <<>>
    /\ stats' = InitialStats
    /\ pages' = <<>>
    /\ writes' = <<>>
    /\ index0' = index
    /\ externalWrites' = 0
    /\ UNCHANGED <<index, nextId, clsVars, pureResults>>

\* "_, total_count = search_documents(skip=0, top=1, ...)" and the
\* "if total_count == 0: return" that follows
CountDocuments(status_code) ==
    /\ pc = "counting"
    /\ LET ret == search_documents(index, 0, 1, ~reclassify_all, status_code)
       IN  IF ~UnpacksToPair(ret)
           THEN /\ pc' = "raised"
                /\ raisedAt' = "count_search"
                /\ UNCHANGED total_count
           ELSE /\ total_count' = ret[2]
                /\ pc' = IF NothingToDo(ret[2]) THEN "nothing" ELSE "paginating"
                /\ UNCHANGED raisedAt
    /\ UNCHANGED <<index, nextId, reclassify_all, dry_run, batch_size, skip,
                   batch_updates, stats, pages, writes, index0,
                   externalWrites, runNo, prev, clsVars, pureResults>>

\* variant: an empty page does not end the loop
PageEndsLoop_Never(docs) == FALSE

\* "if not docs: break"
PageEndsLoop(docs) == Len(docs) = 0

\* one pass of the while loop up to the batch update: the page search,
\* "if not docs: break", and the for loop over the page
FetchPage(status_code) ==
    /\ pc = "paginating"
    /\ skip < total_count
    /\ \E ret \in {search_documents(index, skip, batch_size, ~reclassify_all,
                                    status_code)} :
           IF ~UnpacksToPair(ret)
           THEN /\ pc' = "raised"
                /\ raisedAt' = "page_search"
                /\ pages' = Append(pages, [skip |-> skip, status_code |-> status_code,
                                           ids |-> <<>>])
                /\ UNCHANGED <<batch_updates, stats>>
           ELSE \E docs \in {ret[1]} :
                \E w \in {ProcessDocs([batch_updates |-> batch_updates,
                                       stats |-> stats, raised |-> ""],
                                      docs, 1, runNo)} :
                    /\ pages' = Append(pages,
                                   [skip |-> skip, status_code |-> status_code,
                                    ids |-> [n \in 1..Len(docs) |-> docs[n].id]])
                    /\ IF PageEndsLoop(docs)
                       THEN /\ pc' = "final_batch"
                            /\ UNCHANGED <<batch_updates, stats, raisedAt>>
                       ELSE /\ batch_updates' = w.batch_updates
                            /\ stats' = w.stats
                            /\ raisedAt' = w.raised
                            /\ pc' = IF w.raised # "" THEN "raised" ELSE "batch_update"
    /\ UNCHANGED <<index, nextId, reclassify_all, dry_run, batch_size,
                   total_count, skip, writes, index0, externalWrites, runNo,
                   prev, clsVars, pureResults>>

\* variant: skip advances by one document per pass
NextSkip_ByOne(skip_, size) == skip_ + 1

\* "skip += batch_size"
NextSkip(skip_, size) == skip_ + size

\* the batch update inside the loop, then "skip += batch_size"
BatchUpdate(response) ==
    /\ pc = "batch_update"
    /\ ShouldFlush(dry_run, batch_updates, batch_size)
    /\ LET result == update_documents_batch(batch_updates, response)
       IN  /\ stats' = [stats EXCEPT !.updated = @ + result[1],
                                     !.failed = @ + result[2]]
           /\ writes' = Append(writes, [updates |-> batch_updates,
                                        response |-> response,
                                        result |-> result, final |-> FALSE])
    /\ index' = IndexAfterBatch(index, batch_updates, response, 1)
    /\ batch_updates' = AccumulatorAfterBatch(batch_updates,
                              update_documents_batch(batch_updates, response))
    /\ skip' = NextSkip(skip, batch_size)
    /\ pc' = "paginating"
    /\ UNCHANGED <<nextId, reclassify_all, dry_run, batch_size, raisedAt,
                   total_count, pages, index0, externalWrites, runNo, prev,
                   clsVars, pureResults>>

\* the loop pass ends without a batch update: only "skip += batch_size"
NoBatchUpdate ==
    /\ pc = "batch_update"
    /\ ~ShouldFlush(dry_run, batch_updates, batch_size)
    /\ skip' = NextSkip(skip, batch_size)
    /\ pc' = "paginating"
    /\ UNCHANGED <<index, nextId, reclassify_all, dry_run, batch_size,
                   raisedAt, total_count, batch_updates, stats, pages, writes,
                   index0, externalWrites, runNo, prev, clsVars, pureResults>>

\* the while condition fails
EndLoop ==
    /\ pc = "paginating"
    /\ ~(skip < total_count)
    /\ pc' = "final_batch"
    /\ UNCHANGED <<index, nextId, reclassify_all, dry_run, batch_size,
                   raisedAt, total_count, skip, batch_updates, stats, pages,
                   writes, index0, externalWrites, runNo, prev, clsVars, pureResults>>

\* the final batch update, then the report
FinalBatch(response) ==
    /\ pc = "final_batch"
    /\ ShouldFlushFinal(dry_run, batch_updates)
    /\ LET result == update_documents_batch(batch_updates, response)
       IN  /\ stats' = [stats EXCEPT !.updated = @ + result[1],
                                     !.failed = @ + result[2]]
           /\ writes' = Append(writes, [updates |-> batch_updates,
                                        response |-> response,
                                        result |-> result, final |-> TRUE])
    /\ index' = IndexAfterBatch(index, batch_updates, response, 1)
    /\ pc' = "done"
    /\ UNCHANGED <<nextId, reclassify_all, dry_run, batch_size, raisedAt,
                   total_count, skip, batch_updates, pages, index0,
                   externalWrites, runNo, prev, clsVars, pureResults>>

\* nothing left to write: straight to the report
NoFinalBatch ==
    /\ pc = "final_batch"
    /\ ~ShouldFlushFinal(dry_run, batch_updates)
    /\ pc' = "done"
    /\ UNCHANGED <<index, nextId, reclassify_all, dry_run, batch_size,
                   raisedAt, total_count, skip, batch_updates, stats, pages,
                   writes, index0, externalWrites, runNo, prev, clsVars, pureResults>>

(***************************************************************************)
(* Another writer of the index, active while a run is in progress.         *)
(***************************************************************************)
ExternalAdd(seed) ==
    /\ Running
    /\ externalWrites < MaxExternalWrites
    /\ index' = (nextId :> DocSeeds[seed]) @@ index
    /\ nextId' = nextId + 1
    /\ externalWrites' = externalWrites + 1
    /\ UNCHANGED <<reclassify_all, dry_run, batch_size, pc, raisedAt,
                   total_count, skip, batch_updates, stats, pages, writes,
                   index0, runNo, prev, clsVars, pureResults>>

ExternalRemove(id) ==
    /\ Running
    /\ externalWrites < MaxExternalWrites
    /\ id \in DOMAIN index
    /\ index' = [i \in DOMAIN index \ {id} |-> index[i]]
    /\ externalWrites' = externalWrites + 1
    /\ UNCHANGED <<nextId, reclassify_all, dry_run, batch_size, pc, raisedAt,
                   total_count, skip, batch_updates, stats, pages, writes,
                   index0, runNo, prev, clsVars, pureResults>>

\* the response acknowledges every submitted update, each with a true status
FullyAcknowledged(w) ==
    /\ w.response.status_code = HTTP_OK
    /\ Len(w.response.value) = Len(w.updates)
    /\ \A n \in 1..Len(w.response.value) : w.response.value[n]

\* the response of a healthy index to n merge actions
AcknowledgeAll(n) == [status_code |-> HTTP_OK, value |-> [k \in 1..n |-> TRUE]]

\* batch writes of the run so far that were not acknowledged in full
WriteFaults == Cardinality({n \in 1..Len(writes) : ~FullyAcknowledged(writes[n])})

\* the responses the next batch write may get
NextResponses ==
    IF WriteFaults < MaxWriteFaults
    THEN BatchResponses(Len(batch_updates))
    ELSE {AcknowledgeAll(Len(batch_updates))}

\* the first invocation
FirstRun(all, dry, size) == pc = "idle" /\ StartRun(all, dry, size)

\* the operator invokes the tool again on the same scope and batch size,
\* choosing --dry-run anew
Rerun(dry) == Ended /\ StartRun(reclassify_all, dry, batch_size)

Next ==
    \/ \E all \in BOOLEAN, dry \in BOOLEAN, size \in 1..MaxBatchSize :
          FirstRun(all, dry, size)
    \/ \E status_code \in StatusCodes : CountDocuments(status_code)
    \/ \E status_code \in StatusCodes : FetchPage(status_code)
    \/ \E response \in NextResponses : BatchUpdate(response)
    \/ NoBatchUpdate
    \/ EndLoop
    \/ \E response \in NextResponses : FinalBatch(response)
    \/ NoFinalBatch

\* one invocation on an index nobody else writes
Spec == Init /\ [][Next]_vars

\* consecutive invocations against a healthy index: every call answers 200
\* and every batch is acknowledged in full
NextRerun ==
    \/ \E all \in BOOLEAN, dry \in BOOLEAN, size \in 1..MaxBatchSize :
          FirstRun(all, dry, size)
    \/ \E dry \in BOOLEAN : Rerun(dry)
    \/ CountDocuments(HTTP_OK)
    \/ FetchPage(HTTP_OK)
    \/ BatchUpdate(AcknowledgeAll(Len(batch_updates)))
    \/ NoBatchUpdate
    \/ EndLoop
    \/ FinalBatch(AcknowledgeAll(Len(batch_updates)))
    \/ NoFinalBatch

SpecRerun == Init /\ [][NextRerun]_vars

\* a batch write beside another writer: acknowledged in full, or failed
ConcurrentResponses ==
    {AcknowledgeAll(Len(batch_updates))} \cup
    {[status_code |-> c, value |-> <<>>] : c \in StatusCodes \ {HTTP_OK}}

InitConcurrent ==
    /\ Init
    /\ Cardinality(DOMAIN index) <= MaxConcurrentDocs

\* the steps of run_classification
RunStep ==
    \/ \E all \in BOOLEAN, dry \in BOOLEAN, size \in 1..MaxBatchSize :
          FirstRun(all, dry, size)
    \/ \E status_code \in StatusCodes : CountDocuments(status_code)
    \/ \E status_code \in StatusCodes : FetchPage(status_code)
    \/ \E response \in ConcurrentResponses : BatchUpdate(response)
    \/ NoBatchUpdate
    \/ EndLoop
    \/ \E response \in ConcurrentResponses : FinalBatch(response)
    \/ NoFinalBatch

\* one invocation while another writer changes the index
NextConcurrent ==
    \/ RunStep
    \/ \E seed \in 1..Len(DocSeeds) : ExternalAdd(seed)
    \/ \E id \in DOMAIN index : ExternalRemove(id)

\* the process is sequential and every index call returns, so a run that
\* can take a step takes one
SpecConcurrent == InitConcurrent /\ [][NextConcurrent]_vars /\ WF_vars(RunStep)

(***************************************************************************)
(* Another writer that changes the index in bulk: one request adds or      *)
(* deletes several documents between two index calls of the run.           *)
(***************************************************************************)
BulkAdd(n) ==
    /\ Running
    /\ externalWrites < MaxBulkWrites
    /\ index' = [i \in nextId..(nextId + n - 1) |-> DocSeeds[1]] @@ index
    /\ nextId' = nextId + n
    /\ externalWrites' = externalWrites + 1
    /\ UNCHANGED <<reclassify_all, dry_run, batch_size, pc, raisedAt,
                   total_count, skip, batch_updates, stats, pages, writes,
                   index0, runNo, prev, clsVars, pureResults>>

BulkRemove(ids) ==
    /\ Running
    /\ externalWrites < MaxBulkWrites
    /\ ids # {}
    /\ index' = [i \in DOMAIN index \ ids |-> index[i]]
    /\ externalWrites' = externalWrites + 1
    /\ UNCHANGED <<nextId, reclassify_all, dry_run, batch_size, pc, raisedAt,
                   total_count, skip, batch_updates, stats, pages, writes,
                   index0, runNo, prev, clsVars, pureResults>>

\* the index holds well-formed unclassified documents only
InitBulk ==
    /\ Init
    /\ \A i \in DOMAIN index : index[i] = DocSeeds[1]

\* one invocation against a healthy index that another writer changes in bulk
NextBulk ==
    \/ \E all \in BOOLEAN, dry \in BOOLEAN, size \in 1..MaxBatchSize :
          FirstRun(all, dry, size)
    \/ CountDocuments(HTTP_OK)
    \/ FetchPage(HTTP_OK)
    \/ BatchUpdate(AcknowledgeAll(Len(batch_updates)))
    \/ NoBatchUpdate
    \/ EndLoop
    \/ FinalBatch(AcknowledgeAll(Len(batch_updates)))
    \/ NoFinalBatch
    \/ \E n \in 1..MaxBulkSize : BulkAdd(n)
    \/ \E ids \in SUBSET DOMAIN index : BulkRemove(ids)

SpecBulk == InitBulk /\ [][NextBulk]_vars

(***************************************************************************)
(* classify_document on its own, over sample paths and names.              *)
(***************************************************************************)
PathSamples == <<
    "/Govern/", "/Minutes/2024/", "", "/Directory/", NULL,
    "/Financial/Budget/2024.pdf", "/ARC/Notices/", "/Legal/Contract/",
    "/Statements/Ledger/", "/sites/AssociationDocs/Oak Hill/Vendor/">>

NameSamples == <<
    "Resident Directory.pdf", "random_file.pdf", "Meeting Minutes.pdf",
    "2024 Operating Budget.pdf", NULL, "Notice of violation.pdf",
    "Bylaws and Rules.pdf", "Lien release.pdf", "",
    "R0460131L0199873_statement.pdf">>

ClassifyInputs ==
    {<<PathSamples[p], NameSamples[n]>> :
        p \in 1..Min(MaxPathSamples, Len(PathSamples)),
        n \in 1..Min(MaxNameSamples, Len(NameSamples))}

InitClassify ==
    /\ pureResults = PureResults
    /\ index = <<>>
    /\ nextId = 1
    /\ reclassify_all = FALSE
    /\ dry_run = FALSE
    /\ batch_size = 1
    /\ pc = "idle"
    /\ raisedAt = ""
    /\ total_count = 0
    /\ skip = 0
    /\ batch_updates = <<>>
    /\ stats = InitialStats
    /\ pages = <<>>
    /\ writes = <<>>
    /\ index0 = <<>>
    /\ externalWrites = 0
    /\ runNo = 0
    /\ prev = NoRun
    /\ clsInput \in ClassifyInputs
    /\ clsResult = <<>>
    /\ extResult = <<>>
    /\ statsShown = <<>>

Classify ==
    /\ clsResult = <<>>
    /\ clsResult' = classify_document(clsInput[1], clsInput[2])
    /\ UNCHANGED <<index, nextId, runVars, clsInput, extResult, statsShown,
                   pureResults>>

NextClassify == Classify

SpecClassify == InitClassify /\ [][NextClassify]_vars

(***************************************************************************)
(* The two extractors on their own, over the same sample paths and names.  *)
(***************************************************************************)
Extract ==
    /\ extResult = <<>>
    /\ extResult' = [community |-> extract_community_name(clsInput[1]),
                     account |-> extract_owner_account(clsInput[2], clsInput[1])]
    /\ UNCHANGED <<index, nextId, runVars, clsInput, clsResult, statsShown,
                   pureResults>>

NextExtract == Extract

SpecExtract == InitClassify /\ [][NextExtract]_vars

(***************************************************************************)
(* --stats: get_classification_stats and show_stats.                       *)
(***************************************************************************)
\* a facet of the index: each value some document has in the field, with
\* the number of documents that have it
FacetCounts(idx, field) ==
    LET values == {idx[i][field] : i \in DOMAIN idx} \ {NULL}
    IN  [v \in values |-> Cardinality({i \in DOMAIN idx : idx[i][field] = v})]

\* variant: the response is read whatever its status code
get_classification_stats_IgnoringStatus(idx, status_code) ==
    [total_documents |-> Cardinality(DOMAIN idx),
     by_category |-> FacetCounts(idx, "document_category"),
     by_access_level |-> FacetCounts(idx, "access_level")]

\* get_classification_stats: {} on a non-200 response, else the count and
\* the two facets
get_classification_stats(idx, status_code) ==
    IF status_code # HTTP_OK THEN EmptyDict
    ELSE [total_documents |-> Cardinality(DOMAIN idx),
          by_category |-> FacetCounts(idx, "document_category"),
          by_access_level |-> FacetCounts(idx, "access_level")]

\* dict.get(key, default)
DictGet(d, key, default) == IF key \in DOMAIN d THEN d[key] ELSE default

\* show_stats: the total and the rows of the two tables it prints
ShowStats(status_code) ==
    /\ pc = "idle"
    /\ statsShown = <<>>
    /\ LET got == get_classification_stats(index, status_code)
       IN  statsShown' = [status_code |-> status_code,
                          stats |-> got,
                          total |-> DictGet(got, "total_documents", 0),
                          by_category |-> DictGet(got, "by_category", EmptyDict),
                          by_access_level |-> DictGet(got, "by_access_level", EmptyDict)]
    /\ UNCHANGED <<index, nextId, runVars, clsInput, clsResult, extResult,
                   pureResults>>

NextStats == \E status_code \in StatusCodes : ShowStats(status_code)

SpecStats == Init /\ [][NextStats]_vars

TypeOK ==
    /\ pc \in {"idle", "counting", "paginating", "batch_update", "final_batch",
               "done", "nothing", "raised"}
    /\ skip \in Nat /\ total_count \in Nat

(***************************************************************************)
(* Properties.                                                             *)
(***************************************************************************)
UpdateIds(updates) == {updates[n].id : n \in 1..Len(updates)}

AllWritesSucceeded == \A n \in 1..Len(writes) : FullyAcknowledged(writes[n])

\* a live unclassified-only run reached its report with every write acknowledged
CleanLiveUnclassifiedRun ==
    /\ pc = "done"
    /\ ~reclassify_all
    /\ ~dry_run
    /\ AllWritesSucceeded

UnclassifiedAtStart == {i \in DOMAIN index0 : Unclassified(index0[i])}

\* C1: after a live unclassified-only run whose writes were all
\* acknowledged, every document that was unclassified at the start has been
\* submitted in a batch and no document of the index is left unclassified.
C1_NoDocumentLeftUnclassified ==
    CleanLiveUnclassifiedRun =>
        /\ \A i \in UnclassifiedAtStart :
              \E n \in 1..Len(writes) : i \in UpdateIds(writes[n].updates)
        /\ \A i \in DOMAIN index : ~Unclassified(index[i])

\* sizes of ceil(n / b) consecutive chunks of n items: b, ..., b, remainder
ChunkSizes(n, b) ==
    [k \in 1..((n + b - 1) \div b) |-> IF k * b <= n THEN b ELSE n - (k - 1) * b]

PageSizes  == [n \in 1..Len(pages) |-> Len(pages[n].ids)]
WriteSizes == [n \in 1..Len(writes) |-> Len(writes[n].updates)]

\* C2: a live unclassified-only run over N in-scope documents with batch
\* size B issues exactly ceil(N/B) page searches returning B, ..., B and the
\* remainder, and exactly ceil(N/B) batch writes of those sizes.
C2_PagesAndWritesCoverTheScope ==
    CleanLiveUnclassifiedRun =>
        /\ PageSizes = ChunkSizes(Cardinality(UnclassifiedAtStart), batch_size)
        /\ WriteSizes = ChunkSizes(Cardinality(UnclassifiedAtStart), batch_size)

\* C3: in a dry run no batch update is ever issued, in the loop or at the
\* end, and the index keeps the contents it had when the run started.
C3_DryRunNeverWrites ==
    dry_run => (writes = <<>> /\ index = index0)

\* a dry run reached its report holding at least batch_size pending updates
\* after more than one page
C3_Witness ==
    /\ dry_run
    /\ pc = "done"
    /\ Len(pages) >= 2
    /\ Len(batch_updates) >= batch_size
    /\ stats.processed > 0

\* C4: a dry run and a live run started on the same index contents with the
\* same scope and batch size end with the same frequency tables and the
\* same processed count.
C4_DryAndLiveTablesAgree ==
    ( /\ pc = "done" /\ ~dry_run
      /\ prev.pc = "done" /\ prev.dry_run
      /\ prev.reclassify_all = reclassify_all
      /\ prev.batch_size = batch_size
      /\ prev.index0 = index0 )
    => /\ stats.by_category = prev.stats.by_category
       /\ stats.by_access_level = prev.stats.by_access_level
       /\ stats.processed = prev.stats.processed

\* C5: no transport failure of an index call ends the run in an unhandled
\* error.
C5_TransportFailureIsContained ==
    pc = "raised" => raisedAt \notin {"count_search", "page_search"}

\* C6: when a page search after the first fails, the run stops paginating
\* and goes on to the final batch and the report, with processed below
\* total_count.
C6_FailedPageEndsInReport ==
    ( /\ Len(pages) >= 2
      /\ pages[Len(pages)].status_code # HTTP_OK )
    => /\ pc \in {"final_batch", "done"}
       /\ stats.processed < total_count

\* the step appends a batch write that met a transport failure
FailedWriteStep ==
    /\ Len(writes') = Len(writes) + 1
    /\ writes'[Len(writes')].response.status_code # HTTP_OK

\* C7: a batch write that meets a transport failure returns (0, N), adds N
\* to stats.failed and nothing to stats.updated; inside the loop the
\* accumulator is cleared and the run goes on to the next page; and no
\* update of a failed batch is submitted again in a later batch of the run.
C7_FailedBatchIsCountedNotRetried ==
    [][ /\ FailedWriteStep =>
            LET w == writes'[Len(writes')] IN
            /\ w.result = <<0, Len(w.updates)>>
            /\ stats'.failed = stats.failed + Len(w.updates)
            /\ stats'.updated = stats.updated
            /\ ~w.final => /\ batch_updates' = <<>>
                           /\ pc' = "paginating"
                           /\ skip' = skip + batch_size
        /\ Len(writes') = Len(writes) + 1 =>
            \A m \in 1..Len(writes) :
                writes[m].response.status_code # HTTP_OK =>
                    UpdateIds(writes[m].updates)
                        \cap UpdateIds(writes'[Len(writes')].updates) = {}
      ]_vars

\* a batch failed in transport inside the loop and a later batch was submitted
C7_Witness ==
    \E m \in 1..Len(writes) :
        /\ writes[m].response.status_code # HTTP_OK
        /\ ~writes[m].final
        /\ m < Len(writes)

\* C8: for every submitted batch and every response, succeeded + failed
\* equals the number of updates submitted.
C8_BatchAccounting ==
    \A n \in 1..Len(writes) :
        writes[n].result[1] + writes[n].result[2] = Len(writes[n].updates)

\* a transport-successful response with a failed item and fewer
\* acknowledgements than updates
C8_Witness ==
    \E n \in 1..Len(writes) :
        /\ writes[n].response.status_code = HTTP_OK
        /\ Len(writes[n].response.value) < Len(writes[n].updates)
        /\ \E k \in 1..Len(writes[n].response.value) : ~writes[n].response.value[k]

\* C9: on a transport-successful batch write both counts lie between 0 and
\* the number of updates submitted, whatever the number of acknowledgements
\* the response lists.
C9_CountsWithinBatch ==
    \A n \in 1..Len(writes) :
        writes[n].response.status_code = HTTP_OK =>
            /\ writes[n].result[1] \in 0..Len(writes[n].updates)
            /\ writes[n].result[2] \in 0..Len(writes[n].updates)

\* the rules that match a (path, name), by position in the table
MatchingRules(path, name) ==
    {k \in 1..Len(CLASSIFICATION_RULES) :
        RuleMatches(CLASSIFICATION_RULES[k], LowerOrEmpty(path), LowerOrEmpty(name))}

RulePair(k) ==
    <<CLASSIFICATION_RULES[k].category, CLASSIFICATION_RULES[k].access_level>>

\* C10: classify_document returns the pair of the first matching rule in
\* declaration order; when two rules match, the result is the later one's
\* pair only if an earlier matching rule declares the same pair.
C10_FirstMatchingRuleWins ==
    clsResult # <<>> =>
        LET m == MatchingRules(clsInput[1], clsInput[2]) IN
        /\ m # {} => \E k \in m : /\ \A j \in m : k <= j
                                  /\ clsResult = RulePair(k)
        /\ \A r1 \in m, r2 \in m :
              (r1 < r2 /\ clsResult = RulePair(r2)) =>
                  \E k \in m : k < r2 /\ RulePair(k) = clsResult

\* classify_document has returned for an input that two rules with
\* different pairs match
C10_Witness ==
    /\ clsResult # <<>>
    /\ \E r1, r2 \in MatchingRules(clsInput[1], clsInput[2]) :
          r1 < r2 /\ RulePair(r1) # RulePair(r2)

\* C11: a (path, name) that no pattern of any rule matches is classified
\* ("uncategorized", "staff_only"); an unmatched document never gets another
\* access level.
C11_UnmatchedIsUncategorizedStaffOnly ==
    (clsResult # <<>> /\ MatchingRules(clsInput[1], clsInput[2]) = {}) =>
        clsResult = <<"uncategorized", "staff_only">>

\* classify_document has returned for a non-empty name that matches no rule
C11_Witness ==
    /\ clsResult # <<>>
    /\ Truthy(clsInput[2])
    /\ MatchingRules(clsInput[1], clsInput[2]) = {}

\* the updates the current run has built: those waiting in the accumulator
\* and those handed to update_documents_batch
BuiltUpdates ==
    {batch_updates[n] : n \in 1..Len(batch_updates)} \cup
    UNION {{writes[w].updates[n] : n \in 1..Len(writes[w].updates)} :
              w \in 1..Len(writes)}

\* the stored name and path of the document an update is for
NameOf(u) == index0[u.id].metadata_spo_item_name
PathOf(u) == index0[u.id].metadata_spo_item_path

\* C12: an update carries owner_account_id only if its category starts
\* with "owner_"; under any other category the field is absent, even when
\* the name or path of the document matches an account-id pattern.
C12_OwnerAccountOnlyUnderOwnerCategory ==
    \A u \in BuiltUpdates :
        "owner_account_id" \in DOMAIN u => StartsWith(u.document_category, "owner_")

\* an update was built for a document whose name carries an account id and
\* whose category is not an owner_ one
C12_Witness ==
    \E u \in BuiltUpdates :
        /\ ~StartsWith(u.document_category, "owner_")
        /\ OwnerAccount(NameOf(u), PathOf(u)) \notin {NULL, TYPE_ERROR}
        /\ "owner_account_id" \notin DOMAIN u

\* C13: no update sets community_name to null or to the empty string; when
\* extract_community_name finds nothing for a document with a stored
\* community_name, the update carries the stored value or leaves the field out.
C13_StoredCommunityPreserved ==
    \A u \in BuiltUpdates :
        "community_name" \in DOMAIN u =>
            /\ Truthy(u.community_name)
            /\ ~Truthy(Community(PathOf(u), NameOf(u))) =>
                   u.community_name = index0[u.id].community_name

\* an update was built for a document with a stored community_name in whose
\* path no community pattern matches
C13_Witness ==
    \E u \in BuiltUpdates :
        /\ ~Truthy(Community(PathOf(u), NameOf(u)))
        /\ Truthy(index0[u.id].community_name)
        /\ "community_name" \in DOMAIN u
        /\ u.community_name = index0[u.id].community_name

AccessLevels ==
    {"owner_only", "arc_review", "community_public", "board_only", "staff_only"}

DeclaredPairs ==
    {RulePair(k) : k \in 1..Len(CLASSIFICATION_RULES)} \cup
    {<<"uncategorized", "staff_only">>}

\* C14: every update carries one document_category and one access_level;
\* the pair is a rule's declared pair or ("uncategorized", "staff_only"),
\* and the access_level is one of the five levels.
C14_UpdateCarriesDeclaredPair ==
    \A u \in BuiltUpdates :
        /\ {"document_category", "access_level"} \subseteq DOMAIN u
        /\ <<u.document_category, u.access_level>> \in DeclaredPairs
        /\ u.access_level \in AccessLevels

\* updates were built both under a rule's pair and under the fallback pair
C14_Witness ==
    /\ \E u \in BuiltUpdates : u.document_category = "uncategorized"
    /\ \E u \in BuiltUpdates : u.document_category # "uncategorized"

\* the run was ended by an exception thrown inside the for loop over a page
RaisedInLoopBody == pc = "raised" /\ raisedAt \in {"extract_owner_account", "sample_print"}

\* C15: a record whose name or path is null is processed without error:
\* no statement of the loop body raises on it, also among the first ten
\* records of the run.
C15_NullFieldsProcessedWithoutError == ~RaisedInLoopBody

\* C16: extract_community_name and extract_owner_account never raise, and
\* return null when name and path are null or empty.
C16_ExtractorsNeverRaise ==
    extResult # <<>> =>
        /\ extResult.community # TYPE_ERROR
        /\ extResult.account # TYPE_ERROR
        /\ ~Truthy(clsInput[1]) => extResult.community = NULL
        /\ (~Truthy(clsInput[1]) /\ ~Truthy(clsInput[2])) => extResult.account = NULL

\* C17: when the count search reports 0 the run ends at once, with no page
\* search, no batch write and the index as it was; a run that goes past the
\* count has a positive total_count.
C17_ZeroCountEndsRun ==
    /\ pc = "nothing" =>
          /\ total_count = 0
          /\ pages = <<>>
          /\ writes = <<>>
          /\ index = index0
    /\ pc \in {"paginating", "batch_update", "final_batch", "done"} =>
          total_count > 0

\* an unclassified-only run found nothing to do in a non-empty index
C17_Witness ==
    /\ pc = "nothing"
    /\ ~reclassify_all
    /\ DOMAIN index # {}

\* every index call of the run so far was answered 200 and every batch
\* acknowledged in full
NoTransportFailure ==
    /\ raisedAt \notin {"count_search", "page_search"}
    /\ \A n \in 1..Len(pages) : pages[n].status_code = HTTP_OK
    /\ AllWritesSucceeded

\* the updates submitted for document i, as (write, position) pairs
SubmittedFor(i) ==
    {<<w, n>> \in (1..Len(writes)) \X (1..MaxDocs + MaxExternalWrites) :
        n <= Len(writes[w].updates) /\ writes[w].updates[n].id = i}

\* C18: a live full-reclassify run with no transport failure, on an index
\* nobody else writes, ends with processed = total_count, has submitted
\* exactly one update for every document, and leaves every document with
\* its newly computed category and access level.
C18_FullReclassifyCoversEveryDocument ==
    (Ended /\ reclassify_all /\ ~dry_run /\ NoTransportFailure) =>
        /\ pc \in {"done", "nothing"}
        /\ stats.processed = total_count
        /\ \A i \in DOMAIN index0 : Cardinality(SubmittedFor(i)) = 1
        /\ \A i \in DOMAIN index :
              <<index[i].document_category, index[i].access_level>> =
                  Classification(index[i].metadata_spo_item_path,
                                 index[i].metadata_spo_item_name)

\* C19: in an unclassified-only run no update is built for a document that
\* had a category, and the stored record of every document that had a
\* category stays as it was.
C19_ClassifiedDocumentsUntouched ==
    ~reclassify_all =>
        /\ \A u \in BuiltUpdates : Unclassified(index0[u.id])
        /\ \A i \in DOMAIN index0 :
              ~Unclassified(index0[i]) => (i \in DOMAIN index /\ index[i] = index0[i])

\* an unclassified-only run has written to an index that also holds a
\* document with a category
C19_Witness ==
    /\ ~reclassify_all
    /\ pc = "done"
    /\ index # index0
    /\ \E i \in DOMAIN index0 : ~Unclassified(index0[i])

\* the previous invocation was a live full reclassify that reached its report
AfterSuccessfulFullReclassify ==
    /\ prev.pc = "done"
    /\ prev.reclassify_all
    /\ ~prev.dry_run

\* C20: a full reclassify that follows a successful live full reclassify
\* recomputes, for every document, the category, access level and community
\* name the first run stored, and leaves those three fields of every
\* document as the first run left them.
C20_SecondFullReclassifyChangesNothing ==
    (AfterSuccessfulFullReclassify /\ reclassify_all) =>
        /\ \A u \in BuiltUpdates :
              /\ u.document_category = index0[u.id].document_category
              /\ u.access_level = index0[u.id].access_level
              /\ "community_name" \in DOMAIN u =>
                     u.community_name = index0[u.id].community_name
        /\ DOMAIN index = DOMAIN index0
        /\ \A i \in DOMAIN index :
              /\ index[i].document_category = index0[i].document_category
              /\ index[i].access_level = index0[i].access_level
              /\ index[i].community_name = index0[i].community_name

\* the second live full reclassify has written its updates and reported
C20_Witness ==
    /\ AfterSuccessfulFullReclassify
    /\ reclassify_all
    /\ ~dry_run
    /\ pc = "done"
    /\ Len(writes) > 0
    /\ \E i \in DOMAIN index0 : Truthy(index0[i].community_name)

\* the record is classified outside the owner_ categories, or no account-id
\* pattern matches its name and path
NoOwnerAccountFor(doc) ==
    \/ ~StartsWith(Classification(doc.metadata_spo_item_path,
                                  doc.metadata_spo_item_name)[1], "owner_")
    \/ OwnerAccount(doc.metadata_spo_item_name, doc.metadata_spo_item_path) = NULL

\* C21: the update of a document whose category is not an owner_ one, or in
\* which no account-id pattern matches, has no owner_account_id field, and
\* the stored owner_account_id of such a document stays as it was.
C21_OwnerAccountNeverCleared ==
    /\ \A u \in BuiltUpdates :
          NoOwnerAccountFor(index0[u.id]) => "owner_account_id" \notin DOMAIN u
    /\ \A i \in DOMAIN index :
          NoOwnerAccountFor(index0[i]) =>
              index[i].owner_account_id = index0[i].owner_account_id

\* a document with a stored owner_account_id was rewritten under a category
\* that is not an owner_ one
C21_Witness ==
    \E i \in DOMAIN index :
        /\ NoOwnerAccountFor(index0[i])
        /\ Truthy(index0[i].owner_account_id)
        /\ index[i].document_category # index0[i].document_category
        /\ index[i].owner_account_id = index0[i].owner_account_id

\* C22: when the facet query gets a non-200 response,
\* get_classification_stats returns the empty structure and show_stats
\* completes, printing a total of 0 and no category or access-level row.
C22_FailedStatsQueryShowsNothing ==
    (statsShown # <<>> /\ statsShown.status_code # HTTP_OK) =>
        /\ statsShown.stats = EmptyDict
        /\ statsShown.total = 0
        /\ statsShown.by_category = EmptyDict
        /\ statsShown.by_access_level = EmptyDict

\* show_stats has completed on a failed query over an index with documents
C22_Witness ==
    /\ statsShown # <<>>
    /\ statsShown.status_code # HTTP_OK
    /\ \E i \in DOMAIN index : Truthy(index[i].document_category)

\* the step is a page search that returned no documents
EmptyPageFetched ==
    /\ Len(pages') = Len(pages) + 1
    /\ pages'[Len(pages')].status_code = HTTP_OK
    /\ pages'[Len(pages')].ids = <<>>

\* C23 as stated: the loop is left for the final batch only when
\* skip >= total_count, whatever a page returned.
C23_LoopEndsOnlyAtTotalCount ==
    [][(pc = "paginating" /\ pc' = "final_batch") => skip >= total_count]_vars

\* C23, amended: the loop is left for the final batch exactly when
\* skip >= total_count or a page search returns no documents; a page with
\* fewer documents than requested does not end it, and total_count is not
\* assigned after the count.
C23_LoopEndsAtTotalCountOrEmptyPage ==
    [][/\ (pc = "paginating" /\ pc' = "final_batch") =>
              (skip >= total_count \/ EmptyPageFetched)
       /\ (pc = "paginating" /\ (skip >= total_count \/ EmptyPageFetched)) =>
              pc' = "final_batch"
       /\ pc \in {"paginating", "batch_update", "final_batch"} =>
              total_count' = total_count]_vars

\* the loop was left on an empty page before skip reached total_count
C23_Witness ==
    /\ pc = "final_batch"
    /\ skip < total_count
    /\ Len(pages) > 0
    /\ pages[Len(pages)].status_code = HTTP_OK
    /\ pages[Len(pages)].ids = <<>>

\* the run has issued at most ceil(total_count / batch_size) page searches
PageSearchesWithinBound == Len(pages) * batch_size < total_count + batch_size

\* C24: whatever the index returns and whoever else writes to it, a run
\* issues at most ceil(total_count / batch_size) page searches and comes to
\* an end.
C24_RunTerminatesWithinPageBound ==
    /\ []PageSearchesWithinBound
    /\ <>Ended

\* a run beside another writer has ended after the full number of page
\* searches, one of them short or empty
C24_Witness ==
    /\ Ended
    /\ externalWrites > 0
    /\ Len(pages) > 1
    /\ (Len(pages) + 1) * batch_size >= total_count + batch_size
    /\ \E n \in 1..Len(pages) : Len(pages[n].ids) < batch_size

\* the ids of the records of the first n pages, in the order processed
RECURSIVE FetchedIds(_)
FetchedIds(n) ==
    IF n = 0 THEN <<>> ELSE FetchedIds(n - 1) \o pages[n].ids

\* the ids of the updates of the first n batches, in the order submitted
RECURSIVE SubmittedIds(_)
SubmittedIds(n) ==
    IF n = 0 THEN <<>>
    ELSE SubmittedIds(n - 1) \o
         [k \in 1..Len(writes[n].updates) |-> writes[n].updates[k].id]

\* C25: when a live run has completed, the updates submitted to
\* update_documents_batch, batch after batch, are exactly the updates
\* computed for the records fetched, each once and in the same order.
C25_EveryUpdateSubmittedOnce ==
    (pc = "done" /\ ~dry_run) =>
        /\ SubmittedIds(Len(writes)) = FetchedIds(Len(pages))
        /\ Len(SubmittedIds(Len(writes))) = stats.processed

\* a live run completed with a full batch written in the loop and a
\* partial one written by the final flush
C25_Witness ==
    /\ pc = "done"
    /\ ~dry_run
    /\ Len(writes) > 1
    /\ writes[Len(writes)].final
    /\ Len(writes[Len(writes)].updates) < batch_size

\* C26: every batch handed to update_documents_batch holds at most
\* batch_size updates, also when a short page is followed by a full one.
C26_BatchWithinBatchSize ==
    \A w \in 1..Len(writes) : Len(writes[w].updates) <= batch_size

\* the sum of the counts of a frequency table
RECURSIVE SumOfCounts(_)
SumOfCounts(d) ==
    IF DOMAIN d = {} THEN 0
    ELSE LET k == CHOOSE key \in DOMAIN d : TRUE
         IN  d[k] + SumOfCounts([key \in DOMAIN d \ {k} |-> d[key]])

\* the run stands between two pages, after the loop, or at its report
AtPageBoundary == pc \in {"paginating", "batch_update", "final_batch", "done"}

\* C27: at every page boundary and at the report of a run, dry or live,
\* the counts of by_category and the counts of by_access_level each add up
\* to stats.processed, whatever the writes returned.
C27_TablesAddUpToProcessed ==
    AtPageBoundary =>
        /\ SumOfCounts(stats.by_category) = stats.processed
        /\ SumOfCounts(stats.by_access_level) = stats.processed

\* a live run reported after a failed write, with two records counted under
\* one category
C27_Witness ==
    /\ pc = "done"
    /\ ~dry_run
    /\ stats.failed > 0
    /\ \E c \in DOMAIN stats.by_category : stats.by_category[c] > 1

\* C28: in a live run, between pages and after the loop, stats.processed =
\* stats.updated + stats.failed + the number of updates in the accumulator;
\* at the report stats.updated + stats.failed = stats.processed.
C28_CountsReconcile ==
    ~dry_run =>
        /\ pc \in {"paginating", "batch_update", "final_batch"} =>
              stats.processed = stats.updated + stats.failed + Len(batch_updates)
        /\ pc = "done" => stats.updated + stats.failed = stats.processed

\* a live run reported after one batch was written in full and another
\* was refused
C28_Witness ==
    /\ pc = "done"
    /\ ~dry_run
    /\ stats.updated > 0
    /\ \E w \in 1..Len(writes) : writes[w].response.status_code # HTTP_OK

\* C29 as stated: stats.processed never exceeds total_count, also when
\* documents are added or removed while the run paginates.
C29_ProcessedWithinTotalCount == stats.processed <= total_count

\* a / b rounded up
CeilDiv(a, b) == (a + b - 1) \div b

\* C29, amended: stats.processed never exceeds total_count rounded up to a
\* multiple of batch_size, whoever else writes to the index.
C29_ProcessedWithinRoundedTotalCount ==
    stats.processed <= CeilDiv(total_count, batch_size) * batch_size

\* more records were processed than were counted
C29_Witness ==
    /\ stats.processed > total_count
    /\ externalWrites > 0

\* the flat rule test: some path pattern matches the path or some name
\* pattern matches the name
FlatRuleMatches(rule, path_lower, name_lower) ==
    \/ AnyPatternMatches(rule.path, path_lower)
    \/ AnyPatternMatches(rule.name, name_lower)

\* first-match classification under the flat rule test
RECURSIVE FlatClassifyFrom(_, _, _)
FlatClassifyFrom(k, path_lower, name_lower) ==
    IF k > Len(CLASSIFICATION_RULES) THEN <<"uncategorized", "staff_only">>
    ELSE IF FlatRuleMatches(CLASSIFICATION_RULES[k], path_lower, name_lower)
         THEN RulePair(k)
         ELSE FlatClassifyFrom(k + 1, path_lower, name_lower)

\* C30: classify_document, which tries a rule's path patterns first and its
\* name patterns only when none hit, returns for every (path, name) what
\* first-match classification under the flat rule test returns.
C30_StagedTestEqualsFlatTest ==
    clsResult # <<>> =>
        clsResult = FlatClassifyFrom(1, LowerOrEmpty(clsInput[1]),
                                     LowerOrEmpty(clsInput[2]))

\* classify_document has returned the pair of a rule that matched by a
\* name pattern only
C30_Witness ==
    /\ clsResult # <<>>
    /\ \E k \in MatchingRules(clsInput[1], clsInput[2]) :
          /\ \A j \in MatchingRules(clsInput[1], clsInput[2]) : k <= j
          /\ ~AnyPatternMatches(CLASSIFICATION_RULES[k].path,
                                LowerOrEmpty(clsInput[1]))
          /\ clsResult = RulePair(k)

====
